---- MODULE Spec2Model ----
(***************************************************************************)
(* Node-RED adminAuth callback backed by PostgreSQL.                       *)
(*                                                                         *)
(* The repository ships the same module in four variants:                  *)
(*   "bcryptSalt"  src/customAuth.js       bcrypt over password+STATIC_SALT*)
(*   "bcrypt"      src/unnamed/part_000    bcrypt over the password        *)
(*   "aesPool"     src/unnamed/part_001    AES-256-CBC, pg Pool            *)
(*   "aesClient"   src/unnamed/part_002    AES-256-CBC, single pg Client,  *)
(*                                         authenticate as explicit Promise*)
(* A behaviour of the model runs one variant (chosen in Init) against one  *)
(* table nodered_users.  The host may have several users/authenticate      *)
(* calls in flight; a call advances from one await to the next in one      *)
(* atomic step (JavaScript runs a handler to its next await without        *)
(* interleaving), and each SQL statement is one atomic step of the store.  *)
(* Processes outside the module (provisioning, administration) may write   *)
(* the table between any two steps.                                        *)
(***************************************************************************)
EXTENDS Integers, Sequences, FiniteSets, TLC

----------------------------------------------------------------------------
(* Bounds of the model *)

\* total number of writes by processes outside the module in a behaviour
MaxExt == 1

(* in-flight call slots: the host has at most this many calls open at once *)
Calls == {1, 2}

----------------------------------------------------------------------------
(* Data *)

NULL == [null |-> TRUE]        \* SQL NULL / JavaScript null
EmptyStr == <<>>               \* the empty string ''
NoRow == [norow |-> TRUE]      \* res.rows.length = 0
None == <<>>                   \* an unset history field

Variants == {"bcryptSalt", "bcrypt", "aesPool", "aesClient"}
IsBcrypt(v) == v \in {"bcryptSalt", "bcrypt"}

Usernames == {"alice", "bob"}
Permissions == {"read", "readwrite"}

\* bcrypt only hashes the first 72 bytes of its input (library limit of
\* bcrypt.hash / bcrypt.compare); longer inputs are silently truncated
BCRYPT_MAX_BYTES == 72

\* Strings are kept run-length encoded: a sequence of runs <<character,
\* count>>, counts positive, neighbouring runs of different characters.
\* All characters used are ASCII, one byte each in UTF-8.
Run(ch, n) == <<ch, n>>

\* string concatenation (the + of JavaScript)
Concat(s, t) ==
    IF s = <<>> THEN t
    ELSE IF t = <<>> THEN s
    ELSE IF s[Len(s)][1] = t[1][1]
    THEN SubSeq(s, 1, Len(s) - 1)
            \o <<Run(t[1][1], s[Len(s)][2] + t[1][2])>> \o Tail(t)
    ELSE s \o t

\* the first n bytes of s (all of s when it is shorter)
RECURSIVE Take(_, _)
Take(s, n) ==
    IF n = 0 \/ s = <<>> THEN <<>>
    ELSE IF s[1][2] >= n THEN <<Run(s[1][1], n)>>
    ELSE <<s[1]>> \o Take(Tail(s), n - s[1][2])

\* two passwords of 73 characters that differ only in the last one
LongX == <<Run("a", BCRYPT_MAX_BYTES), Run("x", 1)>>
LongY == <<Run("a", BCRYPT_MAX_BYTES), Run("y", 1)>>

\* candidate passwords the host may submit (the empty string included)
Passwords == {EmptyStr, LongX, LongY}

\* config.security.salt || 'default_salt_value'
STATIC_SALT == <<Run("s", 1)>>

\* values bcrypt.genSalt may return
Salts == {1, 2}


----------------------------------------------------------------------------
(* Configuration (config.js) and module initialisation *)

\* the store connection parameters
DbParams == {"db.host", "db.user", "db.password", "db.database"}

\* the secret-derivation material of variant v
SecretParams(v) ==
    IF v = "bcryptSalt" THEN {"security.salt"}
    ELSE IF v = "bcrypt" THEN {}
    ELSE {"encryption.secret", "encryption.iv"}

\* the parameters variant v reads from config.js
Required(v) == DbParams \cup SecretParams(v)

\* the parameters whose absence makes variant v call process.exit(1):
\* the bcrypt variants test the four db values, the AES variants test
\* encryption.secret and encryption.iv and nothing else
Checked(v) ==
    IF IsBcrypt(v) THEN DbParams ELSE {"encryption.secret", "encryption.iv"}

\* the sections of config.js (config.db, config.security, config.encryption)
Sections ==
    {DbParams, {"security.salt"}, {"encryption.secret", "encryption.iv"}}

\* cfg may lack a whole section that variant v reads: reading a value of
\* an undefined section throws a TypeError while the module loads
SectionAbsent(v, cfg) ==
    \E sec \in Sections : sec \cap Required(v) # {} /\ sec \cap cfg = {}

----------------------------------------------------------------------------
(* Secret derivation and verification *)

\* a TEXT value written to the password column by hand (not by the module)
Text(str) == [alg |-> "text", data |-> str]

\* bcrypt.hash(data, salt): the digest depends on the salt and on the first
\* BCRYPT_MAX_BYTES bytes of data; the salt is embedded in the result
bcrypt_hash(data, salt) ==
    [alg |-> "bcrypt", salt |-> salt,
     data |-> Take(data, BCRYPT_MAX_BYTES)]

\* bcrypt.compare(data, hash): re-hash data under the salt embedded in hash
bcrypt_compare(data, hash) ==
    /\ hash.alg = "bcrypt"
    /\ bcrypt_hash(data, hash.salt) = hash

\* hashPassword: customAuth.js appends STATIC_SALT, part_000 does not
hashPassword(v, plainString, salt) ==
    IF v = "bcryptSalt"
    THEN bcrypt_hash(Concat(plainString, STATIC_SALT), salt)
    ELSE bcrypt_hash(plainString, salt)

\* (variation) a comparison that accepts every password
comparePassword_acceptAll(v, plainString, hash) == TRUE

comparePassword(v, plainString, hash) ==
    IF v = "bcryptSalt"
    THEN bcrypt_compare(Concat(plainString, STATIC_SALT), hash)
    ELSE bcrypt_compare(plainString, hash)

\* encrypt: AES-256-CBC under the fixed key and IV of the configuration, in
\* base64; a block cipher under a fixed key and IV is injective, so the
\* ciphertext is represented by the plaintext it decrypts to
encrypt(plainString) == [alg |-> "aes", data |-> plainString]

\* the comparison of the verify path: comparePassword(password,
\* user.password) in the bcrypt variants, user.password === encryptedData
\* in the AES variants
verify(v, plainString, secret) ==
    IF IsBcrypt(v) THEN comparePassword(v, plainString, secret)
    ELSE secret = encrypt(plainString)

\* (variation) a test of the column for NULL alone
Falsy_nullOnly(pwcol) == pwcol = NULL

\* (variation) a test that takes every column value for unset
Falsy_always(pwcol) == pwcol = pwcol

\* !user.password : JavaScript falsiness of the column value
Falsy(pwcol) == pwcol = NULL \/ pwcol = Text(EmptyStr)

\* the secrets a first-use call of variant v may derive from pw
Derived(v, pw) ==
    IF IsBcrypt(v) THEN {hashPassword(v, pw, s) : s \in Salts}
    ELSE {encrypt(pw)}

----------------------------------------------------------------------------
(* State *)

VARIABLES
    config,     \* the parameters that config.js sets
    phase,      \* "loading" (module initialisation), "ready" or "exited"
    variant,    \* which of the four module files is loaded
    store,      \* table nodered_users: username -> row or NoRow
    calls,      \* the calls in flight, one record per slot
    extCount,   \* number of outside writes so far
    hist        \* history, per username, of the writes of the password column
                \* (recorded only in the behaviours of SpecFirstUse)

vars == <<config, phase, variant, store, calls, extCount, hist>>

Row(u, pwcol, perm) == [username |-> u, password |-> pwcol, permissions |-> perm]

UserInfo(row) == [username |-> row.username, permissions |-> row.permissions]

\* History of the password column of one row since the last outside write:
\*   prov     <<pw>>: the column holds a secret authenticate derived from pw
\*   race     <<pw1, pw2>>: a first-use UPDATE with pw2 replaced the secret
\*            that a first-use UPDATE with pw1 had stored
\*   on       whether the history is recorded at all
NoHist(on) == [prov |-> None, race |-> None, on |-> on]

\* Call record.  Program state: op, pc, username, password, user (row of the
\* first SELECT), updatedUser (row of the second), secret (hashedPassword /
\* encryptedData), result, settled.  History: writes (UPDATEs executed),
\* fault (what failed), later (the call began when the history showed a
\* secret written by authenticate and no call on its username in flight).
IdleCall ==
    [op |-> "none", pc |-> "idle", username |-> "alice", password |-> EmptyStr,
     user |-> NoRow, updatedUser |-> NoRow, secret |-> NULL, result |-> NULL, settled |-> "pending",
     writes |-> 0, fault |-> "none", later |-> FALSE]

\* The module has loaded with every parameter set.  The table is as the
\* provisioning process leaves it before the first login: "alice" exists
\* with permissions "read" and a NULL password, "bob" has no row.
Init ==
    /\ variant \in Variants
    /\ config = Required(variant)
    /\ phase = "ready"
    /\ store = [u \in Usernames |->
                  IF u = "alice" THEN Row(u, NULL, "read") ELSE NoRow]
    /\ calls = [c \in Calls |-> IdleCall]
    /\ extCount = 0
    /\ hist = [u \in Usernames |-> NoHist(FALSE)]

----------------------------------------------------------------------------
(* Helpers *)

\* some call on username u is in flight
Open(u) == \E d \in Calls : calls[d].pc # "idle" /\ calls[d].username = u

\* A settled call hands its value to the host at once: the continuation of
\* a resolved promise is a microtask, and Node.js drains the microtask queue
\* before it handles the next I/O completion.  So no other step is taken
\* while a call is settled and not yet returned.
Quiet == \A c \in Calls : calls[c].pc # "done"

\* the host opens a new call in the lowest free slot
Free(c) ==
    /\ phase = "ready"
    /\ Quiet
    /\ calls[c].pc = "idle"
    /\ \A d \in Calls : d < c => calls[d].pc # "idle"

\* (variation) the SELECT without its WHERE clause: rows[0] is the first row
\* of the table, whoever it belongs to
Select_first(u) ==
    IF \A v \in Usernames : store[v] = NoRow THEN NoRow
    ELSE store[CHOOSE v \in Usernames : store[v] # NoRow]

\* SELECT ... FROM nodered_users WHERE username=$1, then res.rows[0]
Select(u) == store[u]

\* (variation) the UPDATE without its WHERE clause: every row is written
Update_all(st, u, secret) ==
    [v \in Usernames |->
        IF st[v] = NoRow THEN NoRow ELSE [st[v] EXCEPT !.password = secret]]

\* UPDATE nodered_users SET password=$1 WHERE username=$2
Update(st, u, secret) ==
    [st EXCEPT ![u] = IF @ = NoRow THEN NoRow ELSE [@ EXCEPT !.password = secret]]

\* return value: the promise of the call resolves with res
Returned(call, res) ==
    [call EXCEPT !.pc = "done", !.result = res, !.settled = "resolved"]

\* (variation) a handler whose store faults escape: the promise rejects
Catch_rethrow(call, flt) ==
    [call EXCEPT !.pc = "done", !.result = NULL, !.fault = flt,
                 !.settled = IF flt = "store" THEN "rejected" ELSE "resolved"]

\* (variation) a handler that fails open: an error of the derivation or of
\* the comparison is taken for a match
Catch_failOpen(call, flt) ==
    [call EXCEPT !.pc = "done", !.settled = "resolved", !.fault = flt,
                 !.result = IF flt \in {"derive", "verify"} /\ call.user # NoRow
                            THEN UserInfo(call.user) ELSE NULL]

\* (variation) a handler that tells the host what went wrong
Catch_reason(call, flt) ==
    [call EXCEPT !.pc = "done", !.result = [error |-> flt],
                 !.settled = "resolved", !.fault = flt]

\* (variation) the explicit Promise of part_002 with a catch that logs and
\* does not call resolve: the promise stays pending for ever
Catch_noResolve(call, flt) ==
    IF call.op = "authenticate"
    THEN [call EXCEPT !.pc = "hung", !.fault = flt]
    ELSE [call EXCEPT !.pc = "done", !.result = NULL, !.settled = "resolved",
                      !.fault = flt]

\* catch (error) { log; return null; }  flt names what threw
Catch(call, flt) ==
    [call EXCEPT !.pc = "done", !.result = NULL, !.settled = "resolved",
                 !.fault = flt]

----------------------------------------------------------------------------
(* users(username) *)

\* the host calls users(username): the SELECT is sent, the handler awaits it
StartUsers(c, u) ==
    /\ Free(c)
    /\ calls' = [calls EXCEPT ![c] =
                    [IdleCall EXCEPT !.op = "users", !.pc = "lookup",
                                     !.username = u]]
    /\ UNCHANGED <<config, phase, variant, store, extCount, hist>>

\* (variation) a lookup that only knows the users whose password is set
users_passwordSet(c) ==
    /\ Quiet
    /\ calls[c].op = "users"
    /\ calls[c].pc = "lookup"
    /\ \/ LET user == Select(calls[c].username) IN
          calls' = [calls EXCEPT ![c] =
                      Returned(@, IF user # NoRow /\ ~Falsy(user.password)
                                  THEN UserInfo(user) ELSE NULL)]
       \/ calls' = [calls EXCEPT ![c] = Catch(@, "store")]
    /\ UNCHANGED <<config, phase, variant, store, extCount, hist>>

\* SELECT username, permissions ... WHERE username=$1 returns or faults, and
\* the handler runs to its return
users(c) ==
    /\ Quiet
    /\ calls[c].op = "users"
    /\ calls[c].pc = "lookup"
    /\ \/ LET user == Select(calls[c].username) IN
          calls' = [calls EXCEPT ![c] =
                      Returned(@, IF user # NoRow THEN UserInfo(user) ELSE NULL)]
       \/ calls' = [calls EXCEPT ![c] = Catch(@, "store")]
    /\ UNCHANGED <<config, phase, variant, store, extCount, hist>>

----------------------------------------------------------------------------
(* authenticate(username, password) *)

\* The host calls authenticate.  The bcrypt variants send the first SELECT
\* at once; the AES variants first run encrypt(password, key, ivBuffer),
\* which may throw (caught: the call resolves with null).
StartAuthenticate(c, u, pw) ==
    /\ Free(c)
    /\ LET fresh == [IdleCall EXCEPT !.op = "authenticate", !.username = u,
                                     !.password = pw,
                                     !.later = /\ hist[u].prov # None
                                               /\ ~Open(u)]
       IN IF IsBcrypt(variant)
          THEN calls' = [calls EXCEPT ![c] = [fresh EXCEPT !.pc = "lookup"]]
          ELSE \/ calls' = [calls EXCEPT ![c] =
                              [fresh EXCEPT !.pc = "lookup",
                                            !.secret = encrypt(pw)]]
               \/ calls' = [calls EXCEPT ![c] = Catch(fresh, "derive")]
    /\ UNCHANGED <<config, phase, variant, store, extCount, hist>>

\* SELECT * ... WHERE username=$1 returns or faults, and the handler runs on.
\* In the bcrypt variants the next awaits are hashPassword (bcrypt.genSalt,
\* bcrypt.hash) or comparePassword (bcrypt.compare): they read and write
\* nothing but the call's own locals, so they commute with every step of
\* every other call and are taken here, with the step that reaches them.
\* Either may throw; authenticate catches the error and resolves with null.
authLookup(c) ==
    /\ Quiet
    /\ calls[c].op = "authenticate"
    /\ calls[c].pc = "lookup"
    /\ LET user == Select(calls[c].username)
           seen == [calls[c] EXCEPT !.user = user]
       IN
       \/ \* res.rows.length = 0: user does not exist
          /\ user = NoRow
          /\ calls' = [calls EXCEPT ![c] = Returned(seen, NULL)]
       \/ \* !user.password: first use
          /\ user # NoRow /\ Falsy(user.password)
          /\ IF IsBcrypt(variant)
             THEN \/ \E salt \in Salts :
                       calls' = [calls EXCEPT ![c] =
                          [seen EXCEPT !.pc = "update",
                                       !.secret = hashPassword(variant,
                                                     calls[c].password, salt)]]
                  \/ calls' = [calls EXCEPT ![c] = Catch(seen, "derive")]
             ELSE calls' = [calls EXCEPT ![c] = [seen EXCEPT !.pc = "update"]]
       \/ \* the user has a password: verify
          /\ user # NoRow /\ ~Falsy(user.password)
          /\ IF IsBcrypt(variant)
             THEN \/ calls' = [calls EXCEPT ![c] =
                       Returned(seen,
                           IF comparePassword(variant, calls[c].password,
                                              user.password)
                           THEN UserInfo(user) ELSE NULL)]
                  \/ calls' = [calls EXCEPT ![c] = Catch(seen, "verify")]
             ELSE \* user.password === encryptedData
                  calls' = [calls EXCEPT ![c] =
                       Returned(seen,
                           IF user.password = calls[c].secret
                           THEN UserInfo(user) ELSE NULL)]
       \/ \* the query faults
          calls' = [calls EXCEPT ![c] = Catch(@, "store")]
    /\ UNCHANGED <<config, phase, variant, store, extCount, hist>>

\* UPDATE nodered_users SET password=$1 WHERE username=$2 executes or faults
authUpdate(c) ==
    /\ Quiet
    /\ calls[c].op = "authenticate"
    /\ calls[c].pc = "update"
    /\ LET u == calls[c].username IN
       \/ /\ store' = Update(store, u, calls[c].secret)
          /\ calls' = [calls EXCEPT ![c] =
                          [@ EXCEPT !.pc = "refetch", !.writes = @ + 1]]
          /\ hist' = [hist EXCEPT ![u] =
                IF store[u] = NoRow \/ ~hist[u].on THEN @
                ELSE [@ EXCEPT
                        !.prov = <<calls[c].password>>,
                        !.race = IF ~Falsy(store[u].password)
                                    /\ hist[u].prov # None
                                 THEN <<hist[u].prov[1], calls[c].password>>
                                 ELSE @]]
       \/ /\ calls' = [calls EXCEPT ![c] = Catch(@, "store")]
          /\ UNCHANGED <<store, hist>>
    /\ UNCHANGED <<config, phase, variant, extCount>>

\* (variation) the return built from user, the row of the first SELECT
authRefetch_stale(c) ==
    /\ Quiet
    /\ calls[c].op = "authenticate"
    /\ calls[c].pc = "refetch"
    /\ \/ LET updatedUser == Select(calls[c].username) IN
          calls' = [calls EXCEPT ![c] =
                      Returned([@ EXCEPT !.updatedUser = updatedUser],
                               IF updatedUser # NoRow THEN UserInfo(calls[c].user)
                               ELSE NULL)]
       \/ calls' = [calls EXCEPT ![c] = Catch(@, "store")]
    /\ UNCHANGED <<config, phase, variant, store, extCount, hist>>

\* the second SELECT * ... WHERE username=$1 returns or faults
authRefetch(c) ==
    /\ Quiet
    /\ calls[c].op = "authenticate"
    /\ calls[c].pc = "refetch"
    /\ \/ LET updatedUser == Select(calls[c].username) IN
          calls' = [calls EXCEPT ![c] =
                      Returned([@ EXCEPT !.updatedUser = updatedUser],
                               IF updatedUser # NoRow THEN UserInfo(updatedUser)
                               ELSE NULL)]
       \/ calls' = [calls EXCEPT ![c] = Catch(@, "store")]
    /\ UNCHANGED <<config, phase, variant, store, extCount, hist>>

\* one step of an authenticate call
authenticate(c) ==
    \/ authLookup(c)
    \/ authUpdate(c)
    \/ authRefetch(c)

\* the value of the settled call reaches the host; the slot is free again
Return(c) ==
    /\ calls[c].pc = "done"
    /\ calls' = [calls EXCEPT ![c] = IdleCall]
    /\ UNCHANGED <<config, phase, variant, store, extCount, hist>>

----------------------------------------------------------------------------
(* Processes outside the module that write the table *)

ExtWrite(u, row) ==
    /\ Quiet
    /\ extCount < MaxExt
    /\ store[u] # row
    /\ store' = [store EXCEPT ![u] = row]
    /\ hist' = [hist EXCEPT ![u] = NoHist(@.on)]
    /\ extCount' = extCount + 1
    /\ UNCHANGED <<config, phase, variant, calls>>

\* provisioning: INSERT a row with no password
ExtCreate(u, perm) ==
    /\ store[u] = NoRow
    /\ ExtWrite(u, Row(u, NULL, perm))

\* administration: DELETE the row
ExtDelete(u) ==
    /\ store[u] # NoRow
    /\ ExtWrite(u, NoRow)

\* administration: clear the password column, to NULL or to ''
ExtReset(u, blank) ==
    /\ store[u] # NoRow
    /\ ExtWrite(u, [store[u] EXCEPT !.password = blank])

\* administration: change the permissions column
ExtSetPermissions(u, perm) ==
    /\ store[u] # NoRow
    /\ ExtWrite(u, [store[u] EXCEPT !.permissions = perm])

----------------------------------------------------------------------------

Next ==
    \/ \E c \in Calls, u \in Usernames : StartUsers(c, u)
    \/ \E c \in Calls : users(c)
    \/ \E c \in Calls, u \in Usernames, pw \in Passwords :
           StartAuthenticate(c, u, pw)
    \/ \E c \in Calls : authenticate(c)
    \/ \E c \in Calls : Return(c)
    \/ \E u \in Usernames, perm \in Permissions : ExtCreate(u, perm)
    \/ \E u \in Usernames : ExtDelete(u)
    \/ \E u \in Usernames, blank \in {NULL, Text(EmptyStr)} : ExtReset(u, blank)
    \/ \E u \in Usernames, perm \in Permissions : ExtSetPermissions(u, perm)

Spec == Init /\ [][Next]_vars

----------------------------------------------------------------------------
(* Start-up: the host requires the module with a config.js that may leave  *)
(* parameters out; then it calls users and authenticate.                   *)

\* Module initialisation, top to bottom.  A tested value that is absent:
\* console.error and process.exit(1).  An absent section: the load dies of
\* a TypeError.  Otherwise the Pool / Client is built from whatever values
\* there are (STATIC_SALT falls back to 'default_salt_value', an absent db
\* value is passed on as undefined) and the module is exported.
Load ==
    /\ phase = "loading"
    /\ \/ /\ ~(Checked(variant) \subseteq config)
          /\ phase' = "exited"
       \/ /\ SectionAbsent(variant, config)
          /\ phase' = "exited"
       \/ /\ Checked(variant) \subseteq config
          /\ phase' = "ready"
    /\ UNCHANGED <<config, variant, store, calls, extCount, hist>>

InitStartup ==
    /\ variant \in Variants
    /\ config \in SUBSET Required(variant)
    /\ phase = "loading"
    /\ store = [u \in Usernames |->
                  IF u = "alice" THEN Row(u, NULL, "read") ELSE NoRow]
    /\ calls = [c \in Calls |-> IdleCall]
    /\ extCount = 0
    /\ hist = [u \in Usernames |-> NoHist(FALSE)]

NextStartup ==
    \/ Load
    \/ \E c \in Calls, u \in Usernames : StartUsers(c, u)
    \/ \E c \in Calls : users(c)
    \/ \E c \in Calls, u \in Usernames, pw \in Passwords :
           StartAuthenticate(c, u, pw)
    \/ \E c \in Calls : authenticate(c)
    \/ \E c \in Calls : Return(c)

SpecStartup == InitStartup /\ [][NextStartup]_vars

----------------------------------------------------------------------------
(* Progress: the calls of the host on the loaded module, with no writes    *)
(* from outside.  Every store query and every derivation or comparison     *)
(* that a call awaits completes (with a result or a fault), and the event  *)
(* loop then runs the call on: a step of a call that is possible again and *)
(* again is taken (it is held back only while another call's settled       *)
(* promise is delivered), and a settled promise is delivered at once.      *)

NextLive ==
    \/ \E c \in Calls, u \in Usernames : StartUsers(c, u)
    \/ \E c \in Calls : users(c)
    \/ \E c \in Calls, u \in Usernames, pw \in Passwords :
           StartAuthenticate(c, u, pw)
    \/ \E c \in Calls : authenticate(c)
    \/ \E c \in Calls : Return(c)

Fairness ==
    \A c \in Calls :
       /\ SF_vars(users(c))
       /\ SF_vars(authenticate(c))
       /\ WF_vars(Return(c))

SpecLive == Init /\ [][NextLive]_vars /\ Fairness

----------------------------------------------------------------------------
(* The first-use race: logins on the one never-set account "alice", with   *)
(* the history of its password column recorded and no outside writes.      *)

InitFirstUse ==
    /\ variant \in Variants
    /\ config = Required(variant)
    /\ phase = "ready"
    /\ store = [u \in Usernames |->
                  IF u = "alice" THEN Row(u, NULL, "read") ELSE NoRow]
    /\ calls = [c \in Calls |-> IdleCall]
    /\ extCount = 0
    /\ hist = [u \in Usernames |-> NoHist(TRUE)]

NextFirstUse ==
    \/ \E c \in Calls, pw \in Passwords : StartAuthenticate(c, "alice", pw)
    \/ \E c \in Calls : authenticate(c)
    \/ \E c \in Calls : Return(c)

SpecFirstUse == InitFirstUse /\ [][NextFirstUse]_vars


----------------------------------------------------------------------------
(* Sequential logins: the host opens an authenticate call on a username    *)
(* only when no other authenticate call on that username is in flight, and *)
(* nothing outside the module writes the table.  Both users have a row     *)
(* with a NULL password; the history of the password column is recorded.   *)

\* an authenticate call on username u is in flight
AuthOpen(u) ==
    \E d \in Calls :
       /\ calls[d].pc # "idle"
       /\ calls[d].op = "authenticate"
       /\ calls[d].username = u

InitSequential ==
    /\ variant \in Variants
    /\ config = Required(variant)
    /\ phase = "ready"
    /\ store = [u \in Usernames |->
                  Row(u, NULL, IF u = "alice" THEN "read" ELSE "readwrite")]
    /\ calls = [c \in Calls |-> IdleCall]
    /\ extCount = 0
    /\ hist = [u \in Usernames |-> NoHist(TRUE)]

NextSequential ==
    \/ \E c \in Calls, u \in Usernames : StartUsers(c, u)
    \/ \E c \in Calls : users(c)
    \/ \E c \in Calls, u \in Usernames, pw \in Passwords :
           ~AuthOpen(u) /\ StartAuthenticate(c, u, pw)
    \/ \E c \in Calls : authenticate(c)
    \/ \E c \in Calls : Return(c)

SpecSequential == InitSequential /\ [][NextSequential]_vars

----------------------------------------------------------------------------
(* Vocabulary of the properties *)

\* the password column of the row of u holds a secret (a truthy value)
Present(st, u) == st[u] # NoRow /\ ~Falsy(st[u].password)

\* the step is taken by the module (users / authenticate), not from outside
ModuleStep == extCount' = extCount

Settled(c) == calls[c].pc = "done"

\* the settled call c is an authenticate that found the row without a secret
FirstUse(c) ==
    /\ calls[c].op = "authenticate"
    /\ calls[c].user # NoRow
    /\ Falsy(calls[c].user.password)

\* the settled call c is an authenticate that found the row with a secret
VerifyPath(c) ==
    /\ calls[c].op = "authenticate"
    /\ calls[c].user # NoRow
    /\ ~Falsy(calls[c].user.password)

Granted(row) == [username |-> row.username, permissions |-> row.permissions]

----------------------------------------------------------------------------
(* C1: in every step of the module (any interleaving of users and          *)
(* authenticate calls, concurrent calls on one username included), a       *)
(* password column that holds a secret keeps that secret; only a write     *)
(* from outside may change it.                                             *)
C1_SecretNeverOverwritten ==
    [][ModuleStep =>
          \A u \in Usernames :
             Present(store, u) =>
                /\ store'[u] # NoRow
                /\ store'[u].password = store[u].password]_vars

(* C2: with no fault and no outside write, an authenticate that finds the  *)
(* row without a secret returns Granted, whatever the password (the empty  *)
(* string included), and a secret derived from its password is then        *)
(* stored; an authenticate that begins after a first-use call with pw1 has *)
(* returned and carries another password pw2 returns Denied and writes     *)
(* nothing.                                                                *)
C2_FirstUseBindsPassword ==
    \A c \in Calls :
       /\ (Settled(c) /\ FirstUse(c) /\ calls[c].fault = "none") =>
             /\ calls[c].result = Granted(calls[c].user)
             /\ Present(store, calls[c].username)
             /\ store[calls[c].username].password
                   \in Derived(variant, calls[c].password)
       /\ (/\ Settled(c) /\ VerifyPath(c) /\ calls[c].later
           /\ calls[c].password # hist[calls[c].username].prov[1]) =>
             /\ calls[c].result = NULL
             /\ calls[c].writes = 0

(* C3: when two first-use calls on one never-set account have both read    *)
(* the secret as absent and both written, both return Granted, the stored  *)
(* secret is the one written second, and a later authenticate with the     *)
(* first writer's password is Denied when the two passwords differ.        *)
C3_SecondWriteWins ==
    /\ \A u \in Usernames :
          hist[u].race # None =>
             /\ Present(store, u)
             /\ store[u].password \in Derived(variant, hist[u].race[2])
    /\ \A c \in Calls :
          /\ (Settled(c) /\ FirstUse(c) /\ calls[c].fault = "none") =>
                calls[c].result # NULL
          /\ (/\ Settled(c) /\ VerifyPath(c) /\ calls[c].later
              /\ calls[c].fault = "none"
              /\ hist[calls[c].username].race # None
              /\ calls[c].password = hist[calls[c].username].race[1]
              /\ hist[calls[c].username].race[1]
                    # hist[calls[c].username].race[2]) =>
                calls[c].result = NULL

(* C4: a fault of any store query of authenticate (first SELECT, UPDATE,   *)
(* second SELECT) or of users makes the call resolve with null; no call    *)
(* ever rejects: a call is pending until it resolves.                      *)
C4_StoreFaultResolvesNull ==
    \A c \in Calls :
       /\ calls[c].settled \in {"pending", "resolved"}
       /\ Settled(c) <=> calls[c].settled = "resolved"
       /\ calls[c].fault = "store" => Settled(c) /\ calls[c].result = NULL

\* the second SELECT of a first-use call has faulted, after its UPDATE
C4_Witness ==
    \E c \in Calls :
       Settled(c) /\ calls[c].fault = "store" /\ calls[c].writes = 1

(* C5: a users or authenticate call whose SELECT runs while the table has  *)
(* no row for its username resolves with null, whatever the password, and  *)
(* the step leaves the table unchanged.                                    *)
C5_NoRecordDenied ==
    [][\A c \in Calls :
          (/\ calls[c].pc = "lookup"
           /\ calls'[c].pc # "lookup"
           /\ store[calls[c].username] = NoRow) =>
             /\ calls'[c].pc = "done"
             /\ calls'[c].result = NULL
             /\ calls'[c].writes = 0
             /\ store' = store]_vars

\* an authenticate with a non-empty password has found no row
C5_Witness ==
    \E c \in Calls :
       /\ Settled(c) /\ calls[c].op = "authenticate"
       /\ calls[c].fault = "none" /\ calls[c].user = NoRow
       /\ store[calls[c].username] = NoRow
       /\ calls[c].password # EmptyStr

(* C6: an authenticate whose SELECT finds a secret and that meets no fault *)
(* resolves in that step with Granted{username, stored permissions} when   *)
(* the secret is one that derivation yields for its password and with null *)
(* when it is not; it writes nothing, so the table is as before and a      *)
(* repetition gives the same.                                              *)
C6_VerifyAgainstStoredSecret ==
    [][\A c \in Calls :
          LET u == calls[c].username IN
          (/\ calls[c].op = "authenticate"
           /\ calls[c].pc = "lookup"
           /\ calls'[c].pc # "lookup"
           /\ calls'[c].fault = "none"
           /\ Present(store, u)) =>
             /\ calls'[c].pc = "done"
             /\ calls'[c].writes = 0
             /\ store' = store
             /\ calls'[c].result =
                   IF store[u].password \in Derived(variant, calls[c].password)
                   THEN [username |-> u, permissions |-> store[u].permissions]
                   ELSE NULL]_vars

\* a password has been verified against the stored secret and Granted
C6_Witness ==
    \E c \in Calls :
       /\ Settled(c) /\ VerifyPath(c) /\ calls[c].fault = "none"
       /\ calls[c].result = Granted(calls[c].user)

(* C7, as claimed: a first-use call whose derivation and UPDATE succeed    *)
(* returns Granted with the permissions its first SELECT read, whatever is *)
(* written from outside between its store steps.                           *)
C7_PermissionsOfLookup ==
    \A c \in Calls :
       (/\ Settled(c) /\ FirstUse(c)
        /\ calls[c].writes = 1 /\ calls[c].fault = "none") =>
          calls[c].result = Granted(calls[c].user)

(* C7, amended: a first-use call whose second SELECT does not fault        *)
(* returns what that SELECT reads: Granted with the permissions the row    *)
(* has at that moment, and null when the row is gone.                      *)
C7_PermissionsOfRefetch ==
    [][\A c \in Calls :
          LET u == calls[c].username IN
          (/\ calls[c].pc = "refetch"
           /\ calls'[c].pc = "done"
           /\ calls'[c].fault = "none") =>
             calls'[c].result =
                IF store[u] = NoRow THEN NULL
                ELSE [username |-> u, permissions |-> store[u].permissions]]_vars

\* a first-use call has returned permissions other than those it first read
C7_Witness ==
    \E c \in Calls :
       /\ Settled(c) /\ FirstUse(c)
       /\ calls[c].writes = 1 /\ calls[c].fault = "none"
       /\ calls[c].result # NULL
       /\ calls[c].result.permissions # calls[c].user.permissions

(* C8: when the derivation (hashPassword / encrypt) or the comparison      *)
(* (comparePassword) throws in an authenticate call, the call resolves     *)
(* with null in that step, it has written no secret, and the step leaves   *)
(* the table unchanged.                                                    *)
C8_FailClosed ==
    [][\A c \in Calls :
          (/\ calls[c].fault = "none"
           /\ calls'[c].fault \in {"derive", "verify"}) =>
             /\ calls'[c].pc = "done"
             /\ calls'[c].result = NULL
             /\ calls'[c].writes = 0
             /\ store' = store]_vars

\* the derivation or the comparison has thrown after the row was found
C8_Witness ==
    \E c \in Calls :
       /\ Settled(c) /\ calls[c].fault \in {"derive", "verify"}
       /\ calls[c].user # NoRow

(* C9: a step of the module creates no row and deletes none and changes    *)
(* no username and no permissions; the only change it can make is to the   *)
(* password of the row of username u, in the UPDATE of an authenticate     *)
(* call on u, which is the single write of that call; all other rows stay  *)
(* as they are.                                                            *)
C9_AuthenticateFrame ==
    [][ModuleStep =>
          /\ \A u \in Usernames :
                /\ store'[u] = NoRow <=> store[u] = NoRow
                /\ store[u] # NoRow =>
                      /\ store'[u].username = store[u].username
                      /\ store'[u].permissions = store[u].permissions
                /\ store'[u] # store[u] =>
                      /\ \E c \in Calls :
                            /\ calls[c].op = "authenticate"
                            /\ calls[c].username = u
                            /\ calls[c].pc = "update"
                            /\ calls[c].writes = 0
                            /\ calls'[c].writes = 1
                      /\ \A v \in Usernames \ {u} : store'[v] = store[v]
          /\ \A c \in Calls : calls'[c].writes <= 1]_vars

\* an authenticate has written the secret of its user while the table
\* holds a row of another user too
C9_Witness ==
    \E c \in Calls :
       /\ calls[c].pc = "refetch" /\ calls[c].writes = 1
       /\ Present(store, calls[c].username)
       /\ \A u \in Usernames : store[u] # NoRow

(* C10: users(username) never changes the table; it resolves with          *)
(* {username, permissions} of the row of exactly that username when the    *)
(* row exists and the query does not fault, whether or not the row has a   *)
(* secret, and with null otherwise.                                        *)
C10_UsersPureRead ==
    [][\A c \in Calls :
          LET u == calls[c].username IN
          (/\ calls[c].op = "users"
           /\ calls[c].pc = "lookup"
           /\ calls'[c].pc # "lookup") =>
             /\ calls'[c].pc = "done"
             /\ store' = store
             /\ calls'[c].writes = 0
             /\ calls'[c].result =
                   IF calls'[c].fault = "none" /\ store[u] # NoRow
                   THEN [username |-> u, permissions |-> store[u].permissions]
                   ELSE NULL]_vars

\* users has returned the record of a user whose secret was never set
C10_Witness ==
    \E c \in Calls :
       /\ Settled(c) /\ calls[c].op = "users"
       /\ calls[c].result # NULL
       /\ store[calls[c].username] # NoRow
       /\ store[calls[c].username].password = NULL

(* C11: whatever makes a call end in denial (no row for the username, a    *)
(* password that does not verify, a fault of a store query, of the         *)
(* derivation or of the comparison, the row gone at the second SELECT),    *)
(* the host receives the same thing: a promise resolved with null.  So two *)
(* runs that differ only in the cause of the denial give the host the same *)
(* result, for authenticate and for users.                                 *)
HostView(c) == [settled |-> calls[c].settled, value |-> calls[c].result]

DenialCause(c) ==
    IF calls[c].fault # "none" THEN calls[c].fault
    ELSE IF calls[c].op = "users"
    THEN (IF store[calls[c].username] = NoRow THEN "no user" ELSE "none")
    ELSE IF calls[c].user = NoRow THEN "no user"
    ELSE IF VerifyPath(c)
    THEN (IF verify(variant, calls[c].password, calls[c].user.password)
          THEN "none" ELSE "bad password")
    ELSE IF calls[c].updatedUser = NoRow THEN "row gone"
    ELSE "none"

C11_UniformDenial ==
    \A c \in Calls :
       (Settled(c) /\ DenialCause(c) # "none") =>
          HostView(c) = [settled |-> "resolved", value |-> NULL]

\* an authenticate has been denied for a password that does not verify
C11_Witness ==
    \E c \in Calls :
       /\ Settled(c) /\ DenialCause(c) = "bad password"
       /\ HostView(c) = [settled |-> "resolved", value |-> NULL]

(* C12: every users or authenticate call that the host opens is eventually *)
(* resolved, in every variant (the explicit Promise of part_002 included)  *)
(* and on every branch; it resolves with a UserInfo or with null; and it   *)
(* resolves once: a pending call leaves its slot only by resolving, and a  *)
(* resolved call does nothing more than hand its value to the host.        *)
C12_ResolvesExactlyOnce ==
    /\ \A c \in Calls :
          (calls[c].pc # "idle") ~> (calls[c].settled = "resolved")
    /\ [](\A c \in Calls :
             calls[c].settled = "resolved" =>
                \/ calls[c].result = NULL
                \/ calls[c].result \in
                      [username : Usernames, permissions : Permissions])
    /\ [][\A c \in Calls :
             /\ calls[c].settled = "resolved" => calls'[c] = IdleCall
             /\ (calls[c].pc # "idle" /\ calls[c].settled = "pending") =>
                   calls'[c].pc # "idle"]_vars

\* the explicit Promise of part_002 has resolved from its catch, after the
\* first SELECT had found the row
C12_Witness ==
    \E c \in Calls :
       /\ variant = "aesClient" /\ calls[c].op = "authenticate"
       /\ calls[c].settled = "resolved"
       /\ calls[c].fault = "store" /\ calls[c].user # NoRow

(* C13: a secret that a call has derived from its password verifies that   *)
(* password and no other candidate password, in every variant.             *)
C13_RoundTrip ==
    \A c \in Calls :
       (calls[c].op = "authenticate" /\ calls[c].secret # NULL) =>
          \A candidate \in Passwords :
             verify(variant, candidate, calls[c].secret)
                <=> candidate = calls[c].password

(* C14: when config.js leaves out a parameter the variant reads (a store   *)
(* connection value, the static salt, the AES key or IV), the load ends in *)
(* process exit: the module is never ready and no users or authenticate    *)
(* call is ever open.                                                      *)
C14_ExitsUnlessConfigured ==
    ~(Required(variant) \subseteq config) =>
        /\ phase # "ready"
        /\ \A c \in Calls : calls[c].pc = "idle"

(* C15: the four variants return the same results and leave the same       *)
(* secrets present on the same calls and faults.  In a behaviour of one    *)
(* variant: the secret of a row is present exactly when an authenticate    *)
(* has written it, and a call that finds a secret and meets no fault is    *)
(* Granted exactly when its password is the one the secret was derived     *)
(* from, which is what the AES variants compute (equality of the           *)
(* ciphertexts); a variant that returns anything else differs from them.   *)
C15_VariantsAgree ==
    /\ \A u \in Usernames :
          store[u] # NoRow =>
             (Present(store, u) <=> hist[u].prov # None)
    /\ \A c \in Calls :
          (/\ Settled(c) /\ VerifyPath(c) /\ calls[c].fault = "none"
           /\ hist[calls[c].username].prov # None) =>
             (calls[c].result # NULL
                <=> encrypt(calls[c].password)
                       = encrypt(hist[calls[c].username].prov[1]))

(* C16: an authenticate that resolves with null, for whatever reason (a    *)
(* fault of any of its queries included), has written no secret.           *)
C16_DeniedWritesNothing ==
    \A c \in Calls :
       (/\ Settled(c) /\ calls[c].op = "authenticate"
        /\ calls[c].result = NULL) =>
          calls[c].writes = 0

(* C17: when the authenticate calls on a username do not overlap and       *)
(* nothing is written from outside, the secret of a row is written at most *)
(* once (a row whose secret an authenticate has written is never written   *)
(* again), and every authenticate that is Granted from then on carries a   *)
(* password that verifies against that stored secret, which is one that    *)
(* derivation yields for the password of the first-use call.               *)
C17_WrittenOnce ==
    [][\A u \in Usernames :
          hist[u].prov # None =>
             /\ store'[u] = store[u]
             /\ store[u].password \in Derived(variant, hist[u].prov[1])
             /\ \A c \in Calls :
                   (/\ calls[c].op = "authenticate"
                    /\ calls[c].username = u
                    /\ calls[c].pc # "done"
                    /\ calls'[c].pc = "done"
                    /\ calls'[c].result # NULL) =>
                      verify(variant, calls[c].password, store[u].password)]_vars

\* a call that began after the secret of "bob" was written has been
\* Granted on the verify path
C17_Witness ==
    \E c \in Calls :
       /\ Settled(c) /\ VerifyPath(c) /\ calls[c].later
       /\ calls[c].username = "bob"
       /\ calls[c].result # NULL
       /\ store["alice"].password # NULL

(* C18, as claimed: authenticate goes on to derive and write exactly when  *)
(* the row exists and its password column is NULL; on every other stored   *)
(* value, the empty string included, it verifies and writes nothing.       *)
C18_FirstUseIffNull ==
    [][\A c \in Calls :
          LET row == store[calls[c].username] IN
          (/\ calls[c].op = "authenticate"
           /\ calls[c].pc = "lookup"
           /\ calls'[c].pc # "lookup"
           /\ calls'[c].fault = "none") =>
             /\ calls'[c].pc = "update"
                   <=> (row # NoRow /\ row.password = NULL)
             /\ calls'[c].pc # "update" =>
                   /\ calls'[c].pc = "done"
                   /\ calls'[c].writes = 0
                   /\ store' = store]_vars

(* C18, amended: authenticate goes on to derive and write exactly when the *)
(* row exists and its password column is NULL or the empty string; on      *)
(* every other stored value it verifies and writes nothing.                *)
C18_FirstUseIffUnset ==
    [][\A c \in Calls :
          LET row == store[calls[c].username] IN
          (/\ calls[c].op = "authenticate"
           /\ calls[c].pc = "lookup"
           /\ calls'[c].pc # "lookup"
           /\ calls'[c].fault = "none") =>
             /\ calls'[c].pc = "update"
                   <=> (row # NoRow /\ row.password \in {NULL, Text(EmptyStr)})
             /\ calls'[c].pc # "update" =>
                   /\ calls'[c].pc = "done"
                   /\ calls'[c].writes = 0
                   /\ store' = store]_vars

\* an authenticate has found the password column holding the empty string
\* and has gone on to write a secret
C18_Witness ==
    \E c \in Calls :
       /\ calls[c].op = "authenticate"
       /\ calls[c].pc = "refetch" /\ calls[c].writes = 1
       /\ calls[c].user # NoRow
       /\ calls[c].user.password = Text(EmptyStr)

====
